---- MODULE Spec2Model ----
(***************************************************************************)
(* StringArtist: the nail editor (gui/gui.py), the persistence codec       *)
(* (gui/placements.py) and the path orderer (tools/smart_crop.py) as a     *)
(* state machine.                                                          *)
(*                                                                         *)
(* Conventions                                                             *)
(*  - A Placement is a record [x, y, priority, cropper_scanned].  Python's *)
(*    bool is a subtype of int (True == 1), and import stores the JSON     *)
(*    integer as it is, so priority is kept as an integer; it is "true"    *)
(*    when it is not 0.                                                    *)
(*  - Sequences are 1-based here and 0-based in the source: priority_nail  *)
(*    and every returned index keep the source's 0-based value and are     *)
(*    shifted by one only where a sequence is subscripted.                 *)
(*  - im_scale is the rational num/den (the source holds a float); round   *)
(*    is Python's round-half-to-even.                                      *)
(*  - A Euclidean distance sqrt(d2) is represented by its square d2: sqrt  *)
(*    is strictly monotone on the integers reached here, so comparisons    *)
(*    (dist > safe_zone, min, sorted) are those of the squares.            *)
(***************************************************************************)
EXTENDS Integers, Sequences, FiniteSets, TLC

\* ---------------------------------------------------------------- bounds

\* Most placements the store is allowed to hold in the explored runs.
MaxNails == 3

\* ------------------------------------------------------- environment

\* workspace_canvas.winfo_width() / winfo_height(): the size of the canvas.
CanvasW == 10
CanvasH == 10

\* canvas_padding in workspace_click_callback.
canvas_padding == 2

\* The default safe_zone of erase_nail and prioritize_nail.
safe_zone == 6

\* The files the file dialogs can return are named: "missing" is a path that
\* does not exist (a cancelled dialog gives Path("") = "."), "notimage" a file
\* that is not an image, "imgBig" an image without pins, "pinsOk", "pinsShort"
\* and "pinsNeg" images that carry a pins array, and "exported" the file the last
\* export wrote.

\* The files offered to the import dialog of the editing session and to the
\* background dialog.
StaticImportFiles == { "missing", "notimage", "pinsShort", "pinsNeg" }

BackgroundFiles == { "missing", "notimage", "imgBig", "pinsOk" }

\* JSON values: an integer (true/false are integers to isinstance(v, int)) or
\* a list; any other tag stands for a value that is neither.
JInt(n) == [t |-> "int", n |-> n, v |-> <<>>]
JList(s) == [t |-> "list", n |-> 0, v |-> s]
JPin(x, y, p) == JList(<<JInt(x), JInt(y), JInt(p)>>)

NoPins == [t |-> "absent", n |-> 0, v |-> <<>>]

VARIABLES
    placements,     \* GUI.placements: the Placement Store
    priority_nail,  \* GUI.priority_nail: the tracked priority index (0-based)
    im_scale,       \* GUI.im_scale, as [num, den]
    im_path,        \* GUI.im_path: a file name, or "None"
    working_im,     \* GUI.working_im: [set, width, height] of the displayed image
    exported,       \* the file written by the last export: [set, width, height, pins, src]
    last,           \* the last handler that ran and how it ended
    order,          \* SmartCropper.order: the path, a sequence of <<x, y>>
    runs            \* how many times SmartCropper.run ran on the current cropper

vars == <<placements, priority_nail, im_scale, im_path, working_im, exported, last,
          order, runs>>

\* ------------------------------------------------------------ the files

StaticFile(name) ==
    CASE name = "missing"     -> [kind |-> "missing", width |-> 0, height |-> 0, pins |-> NoPins]
      [] name = "notimage"    -> [kind |-> "notimage", width |-> 0, height |-> 0, pins |-> NoPins]
      [] name = "imgBig"      -> [kind |-> "image", width |-> 20, height |-> 20, pins |-> NoPins]
      [] name = "pinsOk"      -> [kind |-> "image", width |-> 10, height |-> 10,
                                  pins |-> JList(<<JPin(0, 0, 1), JPin(10, 0, 0), JPin(0, 10, 0)>>)]
      [] name = "pinsShort"   -> [kind |-> "image", width |-> 10, height |-> 10,
                                  pins |-> JList(<<JPin(1, 1, 1), JPin(2, 2, 0)>>)]
      [] name = "pinsNeg"     -> [kind |-> "image", width |-> 10, height |-> 10,
                                  pins |-> JList(<<JPin(-1, 4, 1), JPin(10, 4, 1), JPin(4, 10, 0)>>)]
      [] OTHER                -> [kind |-> "missing", width |-> 0, height |-> 0, pins |-> NoPins]

FileAt(name) ==
    IF name = "exported"
    THEN IF exported.set
         THEN [kind |-> "image", width |-> exported.width, height |-> exported.height,
               pins |-> exported.pins]
         ELSE [kind |-> "missing", width |-> 0, height |-> 0, pins |-> NoPins]
    ELSE StaticFile(name)

\* ------------------------------------------------------------ arithmetic

\* Python's round(n / d) for d > 0: round half to even.
Round(n, d) ==
    LET q == n \div d
        r == n % d
    IN  IF 2 * r < d THEN q
        ELSE IF 2 * r > d THEN q + 1
        ELSE IF q % 2 = 0 THEN q ELSE q + 1

One == [num |-> 1, den |-> 1]

\* 1 / scale
Inverse(scale) == [num |-> scale.den, den |-> scale.num]

\* max(1.0, im_width / canvas_width)
ScaleOf(im_width) ==
    IF im_width <= CanvasW THEN One ELSE [num |-> im_width, den |-> CanvasW]

\* Placement.to_scaled
to_scaled(p, scale) ==
    <<Round(p.x * scale.num, scale.den), Round(p.y * scale.num, scale.den)>>

\* scale_to_fit: Image.thumbnail keeps the aspect ratio and never enlarges.
scale_to_fit(w, h) ==
    IF w <= CanvasW /\ h <= CanvasH THEN <<w, h>>
    ELSE IF CanvasW * h >= w * CanvasH
         THEN <<IF (CanvasH * w) \div h < 1 THEN 1 ELSE (CanvasH * w) \div h,
                IF h < CanvasH THEN h ELSE CanvasH>>
         ELSE <<IF w < CanvasW THEN w ELSE CanvasW,
                IF (CanvasW * h) \div w < 1 THEN 1 ELSE (CanvasW * h) \div w>>

\* The square of distance_between_two_points / distance_to_nail.
Dist2(x1, y1, x2, y2) == (x2 - x1) * (x2 - x1) + (y2 - y1) * (y2 - y1)

Truthy(v) == v # 0

Placement(x, y, priority) ==
    [x |-> x, y |-> y, priority |-> priority, cropper_scanned |-> FALSE]

\* The (x, y, priority) triples of a store, in order.
Triples(store) ==
    [i \in 1..Len(store) |-> <<store[i].x, store[i].y, store[i].priority>>]

PriorityCount(store) ==
    Cardinality({i \in 1..Len(store) : Truthy(store[i].priority)})

\* ------------------------------------------------- persistence codec

LoadError == [ok |-> FALSE, val |-> <<>>]

\* One element of the array passes the checks of the loop body.
PinWellFormed(pin) ==
    /\ pin.t = "list"
    /\ Len(pin.v) = 3
    /\ \A j \in 1..Len(pin.v) : pin.v[j].t = "int"

\* placements_from_json without the check of lines 51-52.
placements_from_json_no_minimum(data) ==
    IF data.t # "list" THEN LoadError
    ELSE IF \E i \in 1..Len(data.v) : ~PinWellFormed(data.v[i]) THEN LoadError
    ELSE [ok |-> TRUE,
          val |-> [i \in 1..Len(data.v) |->
                     Placement(data.v[i].v[1].n, data.v[i].v[2].n, data.v[i].v[3].n)]]

\* placements_from_json: [ok |-> FALSE] stands for the raised PlacementLoadError.
placements_from_json(data) ==
    IF data.t # "list" THEN LoadError
    ELSE IF \E i \in 1..Len(data.v) : ~PinWellFormed(data.v[i]) THEN LoadError
    ELSE IF Len(data.v) < 3 THEN LoadError
    ELSE [ok |-> TRUE,
          val |-> [i \in 1..Len(data.v) |->
                     Placement(data.v[i].v[1].n, data.v[i].v[2].n, data.v[i].v[3].n)]]

\* placements_to_json
placements_to_json(store, descale_factor) ==
    JList([i \in 1..Len(store) |->
             JPin(to_scaled(store[i], descale_factor)[1],
                  to_scaled(store[i], descale_factor)[2],
                  store[i].priority)])

\* ------------------------------------------------------- nearest lookup

\* distance_to_nail (squared): the placement is rescaled to canvas space first.
distance_to_nail(p, x, y, scale) ==
    Dist2(x, y, to_scaled(p, Inverse(scale))[1], to_scaled(p, Inverse(scale))[2])

\* Insert index i into the sorted sequence of indices s, after every element
\* whose key is not greater: Python's sorted() is stable.
RECURSIVE InsertStable(_, _, _, _, _, _)
InsertStable(i, s, store, x, y, scale) ==
    IF s = <<>> THEN <<i>>
    ELSE IF distance_to_nail(store[i], x, y, scale) < distance_to_nail(store[Head(s)], x, y, scale)
         THEN <<i>> \o s
         ELSE <<Head(s)>> \o InsertStable(i, Tail(s), store, x, y, scale)

\* sorted(self.placements.copy(), key=distance_to_nail), as indices (1-based)
\* into the store: a Placement has no __eq__, so an index stands for the object.
RECURSIVE SortedByDistance(_, _, _, _, _)
SortedByDistance(n, store, x, y, scale) ==
    IF n = 0 THEN <<>>
    ELSE InsertStable(n, SortedByDistance(n - 1, store, x, y, scale), store, x, y, scale)

\* get_closest_nail with a sort that puts the later of two tied nails first.
closest_nail_last_tie(store, x, y, scale) ==
    LET d(i) == distance_to_nail(store[i], x, y, scale)
        best == CHOOSE i \in 1..Len(store) :
                    \A j \in 1..Len(store) : d(i) < d(j) \/ (d(i) = d(j) /\ i >= j)
    IN  IF Len(store) > 0
        THEN [idx |-> best - 1, dist |-> d(best)]
        ELSE [idx |-> -1, dist |-> -1]

\* get_closest_nail: (0-based index, squared distance), or (-1, -1).
closest_nail(store, x, y, scale) ==
    LET cloned == SortedByDistance(Len(store), store, x, y, scale)
    IN  IF Len(cloned) > 0
        THEN [idx |-> cloned[1] - 1, dist |-> distance_to_nail(store[cloned[1]], x, y, scale)]
        ELSE [idx |-> -1, dist |-> -1]

get_closest_nail(x, y) == closest_nail(placements, x, y, im_scale)

\* ----------------------------------------------------------- the editor

Outcome(op, outcome, arg) == [op |-> op, outcome |-> outcome, arg |-> arg]

NoImage == [set |-> FALSE, width |-> 0, height |-> 0]
NoExport == [set |-> FALSE, width |-> 0, height |-> 0, pins |-> NoPins, src |-> <<>>]

Init ==
    /\ placements = <<>>
    /\ priority_nail = 0
    /\ im_scale = One
    /\ im_path = "None"
    /\ working_im = NoImage
    /\ exported = NoExport
    /\ last = Outcome("init", "ok", "")
    /\ order = <<>>
    /\ runs = 0

\* redraw_canvas: opens im_path (here `path`, the value it has when redraw runs),
\* recomputes im_scale and working_im.  Image.open raises on a file that is not
\* an image, before either is assigned.
redraw_canvas(path) ==
    IF FileAt(path).kind = "image"
    THEN /\ im_scale' = ScaleOf(FileAt(path).width)
         /\ working_im' = [set |-> TRUE,
                           width |-> scale_to_fit(FileAt(path).width, FileAt(path).height)[1],
                           height |-> scale_to_fit(FileAt(path).width, FileAt(path).height)[2]]
    ELSE UNCHANGED <<im_scale, working_im>>

\* Remove the element at 0-based index i.
Pop(store, i) == SubSeq(store, 1, i) \o SubSeq(store, i + 2, Len(store))

\* erase_nail without lines 378-379: the priority is lost with the removed nail.
ErasedStore_no_handover(store, i) == Pop(store, i)

\* erase_nail lines 376-379: pop, then hand priority to the new first element.
ErasedStore(store, i) ==
    LET rest == Pop(store, i)
    IN  IF Truthy(store[i + 1].priority) /\ Len(rest) > 0
        THEN [rest EXCEPT ![1].priority = 1]
        ELSE rest

\* prioritize_nail lines 420-421.
PrioritizedStore(store, old, new) ==
    [[store EXCEPT ![old + 1].priority = 0] EXCEPT ![new + 1].priority = 1]

\* place_nail that puts the new nail at the front of the store.
place_nail_prepend(x, y, priority) ==
    /\ Len(placements) < MaxNails
    /\ placements' = <<Placement(Round(x * im_scale.num, im_scale.den),
                                 Round(y * im_scale.num, im_scale.den), priority)>>
                        \o placements
    /\ last' = Outcome("place", "ok", "")
    /\ UNCHANGED <<priority_nail, im_scale, im_path, working_im, exported>>

\* place_nail: draw_nail succeeds whenever the canvas exists, which it always does.
place_nail(x, y, priority) ==
    /\ Len(placements) < MaxNails
    /\ placements' = Append(placements,
                            Placement(Round(x * im_scale.num, im_scale.den),
                                      Round(y * im_scale.num, im_scale.den), priority))
    /\ last' = Outcome("place", "ok", "")
    /\ UNCHANGED <<priority_nail, im_scale, im_path, working_im, exported>>

\* erase_nail with the comparison dist >= safe_zone: a nail exactly safe_zone
\* away is refused.
erase_nail_inclusive(x, y) ==
    LET c == get_closest_nail(x, y)
    IN  IF c.idx = -1
        THEN /\ last' = Outcome("erase", "no_nails", "")
             /\ UNCHANGED <<placements, priority_nail, im_scale, im_path, working_im, exported>>
        ELSE IF c.dist >= safe_zone * safe_zone
        THEN /\ last' = Outcome("erase", "too_far", "")
             /\ UNCHANGED <<placements, priority_nail, im_scale, im_path, working_im, exported>>
        ELSE /\ placements' = ErasedStore(placements, c.idx)
             /\ redraw_canvas(im_path)
             /\ last' = Outcome("erase",
                                IF Truthy(placements[c.idx + 1].priority) /\ Len(placements) > 1
                                THEN "ok_priority" ELSE "ok", "")
             /\ UNCHANGED <<priority_nail, im_path, exported>>

erase_nail(x, y) ==
    LET c == get_closest_nail(x, y)
    IN  IF c.idx = -1
        THEN /\ last' = Outcome("erase", "no_nails", "")
             /\ UNCHANGED <<placements, priority_nail, im_scale, im_path, working_im, exported>>
        ELSE IF c.dist > safe_zone * safe_zone
        THEN /\ last' = Outcome("erase", "too_far", "")
             /\ UNCHANGED <<placements, priority_nail, im_scale, im_path, working_im, exported>>
        ELSE /\ placements' = ErasedStore(placements, c.idx)
             /\ redraw_canvas(im_path)
             /\ last' = Outcome("erase",
                                IF Truthy(placements[c.idx + 1].priority) /\ Len(placements) > 1
                                THEN "ok_priority" ELSE "ok", "")
             /\ UNCHANGED <<priority_nail, im_path, exported>>

prioritize_nail(x, y) ==
    LET c == get_closest_nail(x, y)
    IN  IF c.idx = -1
        THEN /\ last' = Outcome("prioritize", "no_nails", "")
             /\ UNCHANGED <<placements, priority_nail, im_scale, im_path, working_im, exported>>
        ELSE IF c.dist > safe_zone * safe_zone
        THEN /\ last' = Outcome("prioritize", "too_far", "")
             /\ UNCHANGED <<placements, priority_nail, im_scale, im_path, working_im, exported>>
        ELSE IF priority_nail >= Len(placements)
        THEN \* self.placements[self.priority_nail] raises IndexError
             /\ last' = Outcome("prioritize", "index_error", "")
             /\ UNCHANGED <<placements, priority_nail, im_scale, im_path, working_im, exported>>
        ELSE /\ placements' = PrioritizedStore(placements, priority_nail, c.idx)
             /\ priority_nail' = c.idx
             /\ redraw_canvas(im_path)
             /\ last' = Outcome("prioritize", "ok", "")
             /\ UNCHANGED <<im_path, exported>>

\* The clicks tried with the Nail tool and with the other tools, in canvas
\* coordinates.  (1, 4) and (11, 4) lie off the displayed image.  (4, 4) is exactly safe_zone away from (10, 4) and from
\* (4, 10); (4, 10) is further than safe_zone from (10, 4).
NailClicks == { <<4, 4>>, <<10, 4>>, <<1, 4>>, <<11, 4>> }

ProbeClicks == { <<4, 4>>, <<10, 4>>, <<4, 10>> }

ClicksOf(tool) == IF tool = "Nail" THEN NailClicks ELSE ProbeClicks

\* The value of active_tool when the click arrives (selected by
\* tool_select_callback before the click).
Tools == { "None", "Nail", "Erase", "Prioritize" }

im_in_bounds(x, y) ==
    /\ canvas_padding <= x /\ x <= working_im.width
    /\ canvas_padding <= y /\ y <= working_im.height

workspace_click_callback(tool, x, y) ==
    IF ~working_im.set
    THEN /\ last' = Outcome("click", "no_image", "")
         /\ UNCHANGED <<placements, priority_nail, im_scale, im_path, working_im, exported>>
    ELSE IF ~im_in_bounds(x, y)
    THEN /\ last' = Outcome("click", "out_of_bounds", "")
         /\ UNCHANGED <<placements, priority_nail, im_scale, im_path, working_im, exported>>
    ELSE CASE tool = "Nail" -> place_nail(x, y, IF Len(placements) = 0 THEN 1 ELSE 0)
           [] tool = "Erase" -> erase_nail(x, y)
           [] tool = "Prioritize" -> prioritize_nail(x, y)
           [] OTHER -> /\ last' = Outcome("click", "no_tool", "")
                       /\ UNCHANGED <<placements, priority_nail, im_scale, im_path,
                                      working_im, exported>>

\* import_positions_callback.  im_path and im_scale are assigned (lines 181-187)
\* before the pins are read and validated (line 189); the store is replaced
\* (lines 193-194) only after placements_from_json has returned.
import_positions_callback(f) ==
    LET file == FileAt(f)
        loaded == placements_from_json(file.pins)
    IN  IF file.kind = "missing"
        THEN /\ last' = Outcome("import", "not_found", f)
             /\ UNCHANGED <<placements, priority_nail, im_scale, im_path, working_im, exported>>
        ELSE IF file.kind # "image"
        THEN \* Image.open raises
             /\ im_path' = f
             /\ last' = Outcome("import", "io_error", f)
             /\ UNCHANGED <<placements, priority_nail, im_scale, working_im, exported>>
        ELSE IF file.pins.t = "absent"
        THEN \* im.info["pins"] raises KeyError
             /\ im_path' = f
             /\ im_scale' = ScaleOf(file.width)
             /\ last' = Outcome("import", "key_error", f)
             /\ UNCHANGED <<placements, priority_nail, working_im, exported>>
        ELSE IF ~loaded.ok
        THEN \* PlacementLoadError
             /\ im_path' = f
             /\ im_scale' = ScaleOf(file.width)
             /\ last' = Outcome("import", "load_error", f)
             /\ UNCHANGED <<placements, priority_nail, working_im, exported>>
        ELSE /\ im_path' = f
             /\ placements' = loaded.val
             /\ redraw_canvas(f)
             /\ last' = Outcome("import", "ok", f)
             /\ UNCHANGED <<priority_nail, exported>>

\* background_tool_callback
background_tool_callback(f) ==
    LET file == FileAt(f)
    IN  IF file.kind = "missing"
        THEN /\ last' = Outcome("background", "not_found", "")
             /\ UNCHANGED <<placements, priority_nail, im_scale, im_path, working_im, exported>>
        ELSE IF file.kind # "image"
        THEN \* the store is cleared (line 216) before Image.open raises (line 218)
             /\ placements' = <<>>
             /\ last' = Outcome("background", "io_error", "")
             /\ UNCHANGED <<priority_nail, im_scale, im_path, working_im, exported>>
        ELSE /\ placements' = <<>>
             /\ im_path' = f
             /\ redraw_canvas(f)
             /\ last' = Outcome("background", "ok", "")
             /\ UNCHANGED <<priority_nail, exported>>

\* The export guard, off by one.
not_enough_points_off_by_one(store) == Len(store) < 2

\* len(self.placements) < 3 in export_positions_callback
not_enough_points(store) == Len(store) < 3

\* The array export writes: placements_to_json(self.placements, 1 / self.im_scale).
export_data(store, scale) == placements_to_json(store, Inverse(scale))

\* export_positions_callback.  src is a history field: the triples of the store
\* the file was written from.
export_positions_callback ==
    IF not_enough_points(placements)
    THEN /\ last' = Outcome("export", "not_enough_points", "")
         /\ UNCHANGED <<placements, priority_nail, im_scale, im_path, working_im, exported>>
    ELSE IF ~working_im.set
    THEN \* self.working_im.save on None
         /\ last' = Outcome("export", "attribute_error", "")
         /\ UNCHANGED <<placements, priority_nail, im_scale, im_path, working_im, exported>>
    ELSE /\ exported' = [set |-> TRUE, width |-> working_im.width, height |-> working_im.height,
                         pins |-> export_data(placements, im_scale),
                         src |-> Triples(placements)]
         /\ last' = Outcome("export", "ok", "")
         /\ UNCHANGED <<placements, priority_nail, im_scale, im_path, working_im>>

\* ------------------------------------------------------ the path orderer

\* Most runs of SmartCropper.run on the one cropper (its order is never reset).
MaxRuns == 2

\* calculate_distances: the unscanned placements, as 1-based indices in store order.
Unscanned(store) == {i \in 1..Len(store) : ~store[i].cropper_scanned}

\* min(distances, key=lambda x: x[0]): the first element of least distance from
\* `parent`, in store order.
ClosestUnscanned(store, parent) ==
    LET d(i) == Dist2(parent.x, parent.y, store[i].x, store[i].y)
    IN  CHOOSE i \in Unscanned(store) :
            /\ \A j \in Unscanned(store) : d(i) <= d(j)
            /\ \A j \in Unscanned(store) : j < i => d(j) > d(i)

\* get_closest_placement_to, on st = [store, pn, order, err]: the seed is
\* self.placements[self.gui.priority_nail].
get_closest_placement_to(st) ==
    LET marked == [st.store EXCEPT ![st.pn + 1].cropper_scanned = TRUE]
        seed == st.store[st.pn + 1]
    IN  IF Unscanned(marked) = {}
        THEN [st EXCEPT !.store = marked]
        ELSE [st EXCEPT !.store = marked,
                        !.pn = ClosestUnscanned(marked, seed) - 1,
                        !.order = Append(st.order,
                                         <<marked[ClosestUnscanned(marked, seed)].x,
                                           marked[ClosestUnscanned(marked, seed)].y>>)]

\* get_order: one iteration per placement; self.placements[self.gui.priority_nail]
\* raises IndexError when the index is not one of the store.
RECURSIVE get_order(_, _)
get_order(k, st) ==
    IF k = 0 \/ st.err THEN st
    ELSE IF st.pn >= Len(st.store)
         THEN [st EXCEPT !.err = TRUE]
         ELSE get_order(k - 1, get_closest_placement_to(st))

\* run, lines 74-77: reset the scan flags, then order.
ordering_pass(store, pn, path) ==
    get_order(Len(store),
              [store |-> [i \in 1..Len(store) |-> [store[i] EXCEPT !.cropper_scanned = FALSE]],
               pn |-> pn, order |-> path, err |-> FALSE])

\* SmartCropper.run: the ordering pass, then crop, which opens im_path and draws
\* the polygon self.order.
run ==
    LET st == ordering_pass(placements, priority_nail, order)
    IN  /\ runs < MaxRuns
        /\ runs' = runs + 1
        /\ placements' = st.store
        /\ priority_nail' = st.pn
        /\ order' = st.order
        /\ last' = Outcome("run",
                           IF st.err THEN "index_error"
                           ELSE IF FileAt(im_path).kind # "image" THEN "io_error"
                           ELSE "cropped", "")
        /\ UNCHANGED <<im_scale, im_path, working_im, exported>>

\* The handlers of the editor leave the SmartCropper alone.
Click(tools) ==
    /\ \E tool \in tools : \E c \in ClicksOf(tool) : workspace_click_callback(tool, c[1], c[2])
    /\ UNCHANGED <<order, runs>>

Import(files) ==
    /\ \E f \in files : import_positions_callback(f)
    /\ UNCHANGED <<order, runs>>

Background ==
    /\ \E f \in BackgroundFiles : background_tool_callback(f)
    /\ UNCHANGED <<order, runs>>

Export ==
    /\ export_positions_callback
    /\ UNCHANGED <<order, runs>>

\* The editing session: clicks with each of the three tools, background loads
\* and imports of the files on disk.
Next == Click({"Nail", "Erase", "Prioritize"}) \/ Import(StaticImportFiles) \/ Background

Spec == Init /\ [][Next]_vars

\* The session that writes files: nails are placed and erased, the store is
\* exported and the exported file is imported back.
NextExport == Click({"Nail", "Erase"}) \/ Background \/ Export \/ Import({"exported"})

SpecExport == Init /\ [][NextExport]_vars

\* The session that crops: a pins file is imported, its nails are erased and
\* re-prioritized, and the SmartCropper built on the editor is run.
NextCrop == Click({"Erase", "Prioritize"}) \/ Import({"pinsOk"}) \/ run

SpecCrop == Init /\ [][NextCrop]_vars

\* The editing session without persistence: clicks with any tool selected or
\* none, and background loads.
NextEdit == Click(Tools) \/ Background

SpecEdit == Init /\ [][NextEdit]_vars

\* ------------------------------------------------------------- claims

\* C1: whatever place, erase and prioritize clicks were made on a loaded image,
\* at most one Placement of the store has priority = true.
C1_AtMostOnePriority == PriorityCount(placements) <= 1

\* C5: after a successful erase that removed the priority Placement while
\* others remain, exactly one Placement has priority = true.
C5_EraseLeavesOnePriority ==
    (last.op = "erase" /\ last.outcome = "ok_priority") => PriorityCount(placements) = 1

\* The session state C6 names: store, priority index, scale factor, image path.
SessionUnchanged ==
    /\ placements' = placements
    /\ priority_nail' = priority_nail
    /\ im_scale' = im_scale
    /\ im_path' = im_path

\* C6: an import that fails validation or fails on a resource error leaves the
\* whole session state as it was before the call.
C6_FailedImportAtomic ==
    [][(last'.op = "import" /\ last'.outcome \in {"load_error", "io_error", "not_found"})
         => SessionUnchanged]_vars

\* The array is well formed and has fewer than 3 entries.
ShortWellFormed(pins) ==
    /\ pins.t = "list"
    /\ Len(pins.v) < 3
    /\ \A i \in 1..Len(pins.v) : PinWellFormed(pins.v[i])

\* C7: an import of a well-formed array with fewer than 3 entries fails with a
\* load error and the store holds the same ordered Placements as before.
C7_ShortImportRejected ==
    [][(last'.op = "import" /\ ShortWellFormed(FileAt(last'.arg).pins))
         => (last'.outcome = "load_error" /\ placements' = placements)]_vars

\* C7's case: a non-empty store has just survived the import of [[1,1,1],[2,2,0]].
C7_Witness ==
    /\ last = Outcome("import", "load_error", "pinsShort")
    /\ Len(placements) > 0

\* The query points of the nearest lookup.
Queries == NailClicks \cup ProbeClicks

\* C9: get_closest_nail returns (-1, -1.0) on an empty store; otherwise the index
\* of a Placement at minimum canvas-space distance from the query, that distance,
\* and the lowest such index on ties.
C9_ClosestNail ==
    \A q \in Queries :
        LET r == get_closest_nail(q[1], q[2])
            d(i) == distance_to_nail(placements[i], q[1], q[2], im_scale)
        IN  IF placements = <<>>
            THEN r.idx = -1 /\ r.dist = -1
            ELSE /\ r.idx \in 0..(Len(placements) - 1)
                 /\ r.dist = d(r.idx + 1)
                 /\ \A j \in 1..Len(placements) : d(j) >= r.dist
                 /\ \A j \in 1..r.idx : d(j) > r.dist

\* C9's case: a lookup has just selected a nail for prioritize, and two nails of
\* the store are tied at the minimum distance from one of the query points.
C9_Witness ==
    /\ last.op = "prioritize" /\ last.outcome = "ok"
    /\ \E q \in Queries : \E i, j \in 1..Len(placements) :
          /\ i < j
          /\ distance_to_nail(placements[i], q[1], q[2], im_scale) = get_closest_nail(q[1], q[2]).dist
          /\ distance_to_nail(placements[j], q[1], q[2], im_scale) = get_closest_nail(q[1], q[2]).dist

\* C10: every Placement has non-negative coordinates within the width and height
\* of the currently loaded image.
C10_CoordinatesInImage ==
    FileAt(im_path).kind = "image" =>
        \A i \in 1..Len(placements) :
            /\ 0 <= placements[i].x /\ placements[i].x <= FileAt(im_path).width
            /\ 0 <= placements[i].y /\ placements[i].y <= FileAt(im_path).height

\* C4: importing the file an export wrote gives back the (x, y, priority) triples
\* the export was made from.
C4_RoundTrip ==
    last = Outcome("import", "ok", "exported") => Triples(placements) = exported.src

\* C8: an export with fewer than 3 Placements reports not-enough-points, writes no
\* file and changes nothing in the session.
C8_ExportNeedsThree ==
    [][(last'.op = "export" /\ Len(placements) < 3)
         => /\ last'.outcome = "not_enough_points"
            /\ exported' = exported
            /\ UNCHANGED <<placements, priority_nail, im_scale, im_path, working_im>>]_vars

\* C8's case: an export has just been refused on a store of one or two nails.
C8_Witness ==
    /\ last = Outcome("export", "not_enough_points", "")
    /\ Len(placements) \in 1..2

\* How often the coordinate c occurs in a path, and in a store.
PathCount(path, c) == Cardinality({i \in 1..Len(path) : path[i] = c})

StoreCount(store, c) == Cardinality({i \in 1..Len(store) : <<store[i].x, store[i].y>> = c})

\* A first run of the orderer has just completed its ordering pass on a store of
\* at least one Placement.
FirstRunDone ==
    /\ last.op = "run" /\ last.outcome # "index_error"
    /\ runs = 1
    /\ Len(placements) >= 1

\* C2: one run of the orderer on a store of n >= 1 Placements gives a path of
\* exactly n coordinates in which every Placement appears exactly once.
C2_PathVisitsAll ==
    FirstRunDone =>
        /\ Len(order) = Len(placements)
        /\ \A i \in 1..Len(placements) :
              PathCount(order, <<placements[i].x, placements[i].y>>)
                  = StoreCount(placements, <<placements[i].x, placements[i].y>>)

\* The reference greedy order from the 1-based start index: the start, then
\* repeatedly the unvisited Placement nearest to the previous one, the lowest
\* index winning ties.
RECURSIVE GreedyFrom(_, _, _)
GreedyFrom(store, cur, visited) ==
    LET left == (1..Len(store)) \ visited
        d(i) == Dist2(store[cur].x, store[cur].y, store[i].x, store[i].y)
        nxt == CHOOSE i \in left :
                  \A j \in left : d(i) < d(j) \/ (d(i) = d(j) /\ i <= j)
    IN  IF left = {} THEN <<>>
        ELSE <<<<store[nxt].x, store[nxt].y>>>> \o GreedyFrom(store, nxt, visited \cup {nxt})

ReferencePath(store, start) ==
    <<<<store[start].x, store[start].y>>>> \o GreedyFrom(store, start, {start})

\* C3: the path of a first run is the reference greedy order that starts at the
\* store's designated priority Placement; for A(0,0,priority), B(10,0), C(0,10)
\* it is [A, B, C].
C3_PathIsReferenceGreedy ==
    [][(/\ last'.op = "run" /\ last'.outcome # "index_error"
        /\ runs = 0 /\ runs' = 1
        /\ Len(placements) >= 1
        /\ Truthy(placements[priority_nail + 1].priority))
         => order' = ReferencePath(placements, priority_nail + 1)]_vars

\* The step is the handling of one click at the canvas point q with `tool`
\* selected, on a loaded image and inside the accepted extent, so that the tool
\* itself is reached.
ToolStep(tool, q) ==
    /\ working_im.set
    /\ im_in_bounds(q[1], q[2])
    /\ workspace_click_callback(tool, q[1], q[2])

\* C11: after a successful prioritize the selected (nearest) Placement has
\* priority = true, every other Placement that held priority before the call has
\* priority = false, and the tracked priority index is the selected index.
C11_PrioritizeMovesPriority ==
    [][\A q \in ProbeClicks :
          (ToolStep("Prioritize", q) /\ last'.outcome = "ok") =>
              LET sel == get_closest_nail(q[1], q[2]).idx
              IN  /\ Truthy(placements'[sel + 1].priority)
                  /\ \A i \in 1..Len(placements) :
                        (Truthy(placements[i].priority) /\ i # sel + 1)
                            => ~Truthy(placements'[i].priority)
                  /\ priority_nail' = sel]_vars

\* The store of the specification's erase example, and what it becomes.
EraseExampleBefore == <<Placement(10, 10, 1), Placement(10, 20, 0), Placement(20, 10, 0)>>

EraseExampleAfter == <<Placement(10, 20, 1), Placement(20, 10, 0)>>

\* C12: a successful erase removes exactly the Placement the nearest lookup
\* returned; the others keep their relative order, coordinates and flags, except
\* that the new first element becomes priority when the removed one was priority.
\* [(10,10,priority),(10,20),(20,10)] erased at (10,10) is [(10,20,priority),(20,10)].
C12_EraseRemovesSelected ==
    [][\A q \in ProbeClicks :
          (ToolStep("Erase", q) /\ last'.outcome \in {"ok", "ok_priority"}) =>
              LET sel == get_closest_nail(q[1], q[2]).idx
                  n == Len(placements)
                  handover == Truthy(placements[sel + 1].priority) /\ n > 1
              IN  /\ Len(placements') = n - 1
                  /\ \A i \in 1..(n - 1) :
                        LET old == IF i <= sel THEN placements[i] ELSE placements[i + 1]
                        IN  /\ placements'[i].x = old.x
                            /\ placements'[i].y = old.y
                            /\ (i > 1 \/ ~handover) => placements'[i].priority = old.priority
                  /\ handover => Truthy(placements'[1].priority)
                  /\ ErasedStore(EraseExampleBefore,
                                 closest_nail(EraseExampleBefore, 10, 10, One).idx)
                        = EraseExampleAfter]_vars

\* C12's case: the priority nail has just been erased from a store of three, and
\* the two nails left are led by a priority nail.
C12_Witness ==
    /\ last = Outcome("erase", "ok_priority", "")
    /\ Len(placements) = 2
    /\ Truthy(placements[1].priority)

\* The 0-based index of the first element of the store whose priority flag is
\* true, or 0 when none is flagged.
FirstFlagged(store) ==
    IF \E i \in 1..Len(store) : Truthy(store[i].priority)
    THEN (CHOOSE i \in 1..Len(store) :
              /\ Truthy(store[i].priority)
              /\ \A j \in 1..(i - 1) : ~Truthy(store[j].priority)) - 1
    ELSE 0

\* C13: a successful import replaces the store with the imported Placements in
\* array order and sets the tracked priority index to the first flagged element
\* (0 when none is flagged), whatever the index was before.
C13_ImportRecomputesPriorityIndex ==
    [][(last'.op = "import" /\ last'.outcome = "ok") =>
          LET pins == FileAt(last'.arg).pins.v
          IN  /\ Len(placements') = Len(pins)
              /\ \A i \in 1..Len(pins) :
                    /\ placements'[i].x = pins[i].v[1].n
                    /\ placements'[i].y = pins[i].v[2].n
                    /\ placements'[i].priority = pins[i].v[3].n
              /\ priority_nail' = FirstFlagged(placements')]_vars

\* The squared canvas-space distances from q to the nails of the store.
NailDistances(q) ==
    {distance_to_nail(placements[i], q[1], q[2], im_scale) : i \in 1..Len(placements)}

\* No nail of the store lies within 6 px of q (the store may be empty).
NoNailWithinSix(q) == \A d \in NailDistances(q) : d > 6 * 6

\* C14: erase and prioritize fail as no-ops when the store is empty or the
\* nearest nail is strictly further than 6 px: the store, every flag and the
\* priority index are unchanged.  A nail at exactly 6 px is accepted.
C14_NoTargetIsNoOp ==
    [][\A tool \in {"Erase", "Prioritize"} : \A q \in ProbeClicks :
          ToolStep(tool, q) =>
              IF NoNailWithinSix(q)
              THEN /\ last'.outcome \in {"no_nails", "too_far"}
                   /\ placements' = placements
                   /\ priority_nail' = priority_nail
              ELSE last'.outcome \notin {"no_nails", "too_far"}]_vars

\* C14's case: a click has just been refused because the nearest nail of a
\* non-empty store is too far, a nail of that store lies at exactly 6 px of
\* another probe point.
C14_Witness ==
    /\ last.outcome = "too_far"
    /\ Len(placements) > 0
    /\ \E q \in ProbeClicks : 6 * 6 \in NailDistances(q)

\* C15: a place appends exactly one Placement at the end of the store, marked
\* priority if and only if the store was empty just before the call; the
\* Placements already there are unchanged.
C15_PlaceAppends ==
    [][\A q \in NailClicks :
          (ToolStep("Nail", q) /\ last'.op = "place") =>
              LET n == Len(placements)
              IN  /\ Len(placements') = n + 1
                  /\ SubSeq(placements', 1, n) = placements
                  /\ Truthy(placements'[n + 1].priority) <=> (n = 0)]_vars

\* C15's case: a nail has just been placed as the only, priority, nail of a
\* store that had held more nails before and was emptied again (the priority
\* index still points beyond it).
C15_Witness ==
    /\ last = Outcome("place", "ok", "")
    /\ Len(placements) = 1
    /\ Truthy(placements[1].priority)
    /\ priority_nail > 0

\* The click lies on the displayed image shrunk inward by 2 px on each side.
InsidePaddedImage(q) ==
    /\ 2 <= q[1] /\ q[1] <= working_im.width - 2
    /\ 2 <= q[2] /\ q[2] <= working_im.height - 2

\* C16: a place click leaves the store unchanged when no image is loaded or when
\* the click is not within 2 <= x <= width - 2 and 2 <= y <= height - 2 of the
\* displayed image.
C16_PlaceOutsidePaddedImageIsNoOp ==
    [][\A q \in NailClicks :
          (workspace_click_callback("Nail", q[1], q[2])
             /\ (~working_im.set \/ ~InsidePaddedImage(q)))
              => placements' = placements]_vars

\* The orderer's state after the first k iterations of get_order in a run
\* started on this store and priority index (the scan flags are reset first).
AfterSteps(k) ==
    get_order(k, [store |-> [i \in 1..Len(placements) |->
                               [placements[i] EXCEPT !.cropper_scanned = FALSE]],
                  pn |-> priority_nail, order |-> order, err |-> FALSE])

\* C17: on a store of n Placements a run terminates after exactly n steps, each
\* step moves exactly one Placement out of the unscanned set, a step never
\* selects a Placement that is already scanned, and the run ends with every
\* Placement scanned.
C17_RunScansAllInNSteps ==
    [][last'.op = "run" =>
          LET n == Len(placements)
          IN  /\ ~AfterSteps(n).err
              /\ \A k \in 1..n :
                    /\ Cardinality(Unscanned(AfterSteps(k).store)) = n - k
                    /\ Len(AfterSteps(k).order) > Len(AfterSteps(k - 1).order)
                          => (AfterSteps(k).pn + 1) \in Unscanned(AfterSteps(k).store)
              /\ Unscanned(placements') = {}]_vars

\* The outcomes of run in which crop was entered: the image was opened, and the
\* polygon drawn if the open succeeded.
CropEntered == {"io_error", "cropped"}

\* C18: a run on an empty store gives an empty path and skips the crop step, and
\* the polygon is never drawn from an empty path.
C18_EmptyStoreSkipsCrop ==
    [][last'.op = "run" =>
          /\ Len(placements) = 0 => (order' = <<>> /\ last'.outcome \notin CropEntered)
          /\ last'.outcome = "cropped" => order' # <<>>]_vars

\* C19: a run leaves the store's (x, y, priority) triples and the tracked
\* priority index as they were before it.
C19_RunKeepsStoreAndIndex ==
    [][last'.op = "run" =>
          /\ Triples(placements') = Triples(placements)
          /\ priority_nail' = priority_nail]_vars

\* C20: whenever the store is non-empty, the tracked priority index is an index
\* of the store and the Placement at that index has priority = true.
C20_PriorityIndexValid ==
    Len(placements) > 0 =>
        /\ 0 <= priority_nail /\ priority_nail < Len(placements)
        /\ Truthy(placements[priority_nail + 1].priority)

\* C21: a second run of the same SmartCropper that directly follows its first
\* run, the store not having been edited in between, ends with the same path as
\* the first run did.
C21_SecondRunSamePath ==
    [][(/\ last.op = "run" /\ last.outcome # "index_error" /\ runs = 1
        /\ last'.op = "run" /\ last'.outcome # "index_error" /\ runs' = 2)
         => order' = order]_vars

====
